---- MODULE Spec2Model ----
(***************************************************************************)
(* State-machine model of server.js: the name-registration service with    *)
(* its Postgres / in-memory storage fallback, the Redis pass-through        *)
(* endpoints and the SIGTERM shutdown.  One action per handler step: a      *)
(* handler runs without preemption up to its first await (Node's           *)
(* single-threaded event loop), and resumes in a later step when the        *)
(* backend has answered.                                                    *)
(***************************************************************************)
EXTENDS Integers, Sequences, FiniteSets, TLC

\* ---------------------------------------------------------------- bounds
\* Requests submitted in one run, when /register and /names are among them.
MaxReq == 3
\* Requests submitted in one run of /redis/* requests.
MaxRedisReq == 2

\* ------------------------------------------------------------ input values
\* JavaScript's undefined (a field missing from the JSON body) and null.
Undefined == "<undefined>"
Null == "<null>"

\* req.body.name as sent by clients: missing, empty, or a non-empty string.
NameInputs == {Undefined, "", "ann", "bob"}
\* Redis keys used by clients (req.params.key, req.body.key).
Keys == {"k1", "k2"}
KeyInputs == Keys \cup {Undefined}
\* req.body.value: missing, or the empty string (present though falsy, and
\* no integer).
ValueInputs == {Undefined, ""}
\* req.body.ttl: 0 stands for absent/falsy, 1 for a positive number of seconds.
TtlInputs == {0, 1}

VARIABLES
    DATABASE_URL,    \* process.env.DATABASE_URL is set
    REDIS_URL,       \* process.env.REDIS_URL is set
    useInMemory,     \* the storage-mode flag
    inMemoryNames,   \* the in-memory list
    pool,            \* "null" | "open" | "ended"
    redis,           \* "null" | "open" | "disconnected"
    redisConnected,  \* set by the client's connect / error events
    server,          \* "listening" | "closing" | "closed"
    exitCode,        \* -1 while running, else the code given to process.exit
    initPc,          \* initDb: "start" | "awaiting" | "done"
    initOk,          \* initDb's CREATE TABLE succeeded
    inflight,        \* handlers suspended at an await, one record each
    nreq,            \* requests accepted so far
    last,            \* the response sent last, with its request
    acked,           \* history: the records answered 201, in order
    lastNames,       \* history: the last /names answer with no /register since
    written,         \* history: keys a SET or INCR was issued for
    atSigterm,       \* history: how many handlers SIGTERM found in flight
    now,             \* logical clock behind created_at
    pgTable,         \* Postgres: the names table exists
    pgRows,          \* Postgres: rows of names, in insertion order
    pgSerial,        \* Postgres: next value of the id sequence
    pgQueries,       \* queries handed to pool.query so far
    redisStore,      \* Redis: key -> string value or Null
    redisTtl,        \* Redis: keys that carry an expiration
    redisCmds        \* commands handed to the Redis client so far

vars == <<DATABASE_URL, REDIS_URL, useInMemory, inMemoryNames, pool, redis,
          redisConnected, server, exitCode, initPc, initOk, inflight,
          nreq, last, acked, lastNames, written, atSigterm, now,
          pgTable, pgRows, pgSerial, pgQueries, redisStore,
          redisTtl, redisCmds>>

config == <<DATABASE_URL, REDIS_URL>>
pgVars == <<pgTable, pgRows, pgSerial>>
redisVars == <<redisStore, redisTtl>>
storeVars == <<useInMemory, inMemoryNames>>
procVars == <<pool, redis, server, exitCode>>
initVars == <<initPc, initOk>>
histVars == <<acked, lastNames, written, atSigterm>>

\* ------------------------------------------------------------- conversions
Digits == <<"0", "1", "2", "3", "4", "5", "6", "7", "8", "9">>

RECURSIVE ToStr(_)
\* Decimal rendering of a natural number (Redis stores counters as strings).
ToStr(n) == IF n < 10 THEN Digits[n + 1]
            ELSE ToStr(n \div 10) \o Digits[(n % 10) + 1]

\* A stored string is an integer iff it is the rendering of one.
IsInt(s) == \E n \in 0..(MaxRedisReq + 1) : ToStr(n) = s
ParseInt(s) == CHOOSE n \in 0..(MaxRedisReq + 1) : ToStr(n) = s

\* Variant: only a missing field counts (name === undefined).
FalsyMissingOnly(v) == v = Undefined

\* JavaScript truthiness of a body field that is a string or missing.
Falsy(v) == v = Undefined \/ v = ""

\* ------------------------------------------------------------------ records
Entry(id, name, at) == [id |-> id, name |-> name, created_at |-> at]

\* A response with the request it answers.  ackedAt is the list of records
\* already answered 201 when the request arrived, initAt the position of
\* initDb at that moment, storage the store the handler used ("none" when it
\* used neither), names the records of the body (data or names), value /
\* exists / num / connected the Redis fields of the body.
Response(t, status, storage, names, value, exists, num, connected) ==
    [rid |-> t.rid, op |-> t.op, arg |-> t.arg, val |-> t.val, ttl |-> t.ttl,
     ackedAt |-> t.ackedAt, initAt |-> t.initAt, status |-> status,
     storage |-> storage, names |-> names, value |-> value, exists |-> exists,
     num |-> num, connected |-> connected]

\* A body that carries an error message only.
ErrorResponse(t, status) ==
    Response(t, status, "none", <<>>, Null, FALSE, 0, FALSE)

Task(op, arg, val, ttl) ==
    [rid |-> nreq + 1, op |-> op, arg |-> arg, val |-> val, ttl |-> ttl,
     ackedAt |-> IF op = "names" THEN acked ELSE <<>>, initAt |-> initPc]

\* No response sent yet.
NoResponse ==
    ErrorResponse([rid |-> 0, op |-> "none", arg |-> Undefined,
                   val |-> Undefined, ttl |-> 0, ackedAt |-> <<>>,
                   initAt |-> "start"], 0)
\* No /names answer to compare with.
NoNames == [status |-> 0, storage |-> "none", names |-> <<>>]

\* ---------------------------------------------------------------- startup
\* Lines 9-36: the module's top-level statements, for each environment.
\* Variant: the flag starts false whatever the environment.
InitUseInMemoryNever(dbUrl) == FALSE

InitUseInMemory(dbUrl) == ~dbUrl

InitPool(dbUrl) == IF dbUrl THEN "open" ELSE "null"

InitRedis(redisUrl) == IF redisUrl THEN "open" ELSE "null"

\* The table a previous run may have left behind: none or empty, or one row.
\* Without DATABASE_URL there is no database to speak of.
OldRows(dbUrl) == IF dbUrl THEN {<<>>, <<Entry(1, "old", 0)>>} ELSE {<<>>}

OldTable(dbUrl, rows) == IF dbUrl /\ rows = <<>> THEN BOOLEAN ELSE {dbUrl}

Init ==
    /\ DATABASE_URL \in BOOLEAN
    /\ REDIS_URL \in BOOLEAN
    /\ useInMemory = InitUseInMemory(DATABASE_URL)
    /\ inMemoryNames = <<>>
    /\ pool = InitPool(DATABASE_URL)
    /\ redis = InitRedis(REDIS_URL)
    /\ redisConnected = FALSE
    /\ server = "listening"
    /\ exitCode = -1
    /\ initPc = "start"
    /\ initOk = FALSE
    /\ inflight = {}
    /\ nreq = 0
    /\ last = NoResponse
    /\ acked = <<>>
    /\ lastNames = NoNames
    /\ written = {}
    /\ atSigterm = 0
    /\ now = 1
    /\ pgRows \in OldRows(DATABASE_URL)
    /\ pgTable \in OldTable(DATABASE_URL, pgRows)
    /\ pgSerial = Len(pgRows) + 1
    /\ pgQueries = 0
    /\ redisStore = [k \in Keys |-> Null]
    /\ redisTtl = {}
    /\ redisCmds = 0

Running == exitCode = -1

\* app.listen's callback: logs, then calls initDb, which returns at once in
\* in-memory mode and otherwise suspends on CREATE TABLE IF NOT EXISTS.
ListenCallback ==
    /\ Running
    /\ initPc = "start"
    /\ IF useInMemory
         THEN /\ initPc' = "done"
              /\ UNCHANGED pgQueries
         ELSE /\ initPc' = "awaiting"
              /\ pgQueries' = pgQueries + 1
    /\ UNCHANGED <<config, storeVars, procVars, redisConnected, initOk,
                   inflight, nreq, last, histVars, now, pgVars, redisVars,
                   redisCmds>>

\* initDb resumes after its await: the query succeeded, or it threw and the
\* catch block falls back to the in-memory list.
InitDbResume(ok) ==
    /\ Running
    /\ initPc = "awaiting"
    /\ initPc' = "done"
    /\ initOk' = ok
    /\ IF ok
         THEN /\ pgTable' = TRUE
              /\ UNCHANGED useInMemory
         ELSE /\ useInMemory' = TRUE
              /\ UNCHANGED pgTable
    /\ UNCHANGED <<config, inMemoryNames, procVars, redisConnected, inflight,
                   nreq, last, histVars, now, pgRows, pgSerial, pgQueries,
                   redisVars, redisCmds>>

\* ------------------------------------------------------------- connections
\* A request arrives on a connection of its own, which the server must still
\* be accepting and which ends when the request is answered.  The listen
\* callback runs before any request is dispatched.
\* Variant: the server is started only once initDb has completed.
AcceptAfterInit(max) ==
    /\ Running
    /\ initPc = "done"
    /\ server = "listening"
    /\ nreq < max
    /\ nreq' = nreq + 1

Accept(max) ==
    /\ Running
    /\ initPc # "start"
    /\ server = "listening"
    /\ nreq < max
    /\ nreq' = nreq + 1

\* The handler answers in the step in which the request arrived.
Answer(r) ==
    /\ last' = r
    /\ UNCHANGED inflight

\* The handler suspends on a backend call.
Suspend(t) ==
    /\ inflight' = inflight \cup {t}
    /\ UNCHANGED last

\* A suspended handler resumes and answers.
Resume(t, r) ==
    /\ inflight' = inflight \ {t}
    /\ last' = r
    /\ UNCHANGED nreq

\* Open connections: net.Server counts these and emits 'close' at zero.
Connections == Cardinality(inflight)

\* ---------------------------------------------------------- POST /register
\* History: a record answered 201 and the store that holds it.
Acked(entry, storage) == [rec |-> entry, storage |-> storage]

\* Variant: the length is used as it is, 1 standing in for 0.
NextIdFromLength(list) == IF Len(list) = 0 THEN 1 ELSE Len(list)

\* Line 87: the id of the next in-memory record.
NextId(list) == Len(list) + 1

Register(name) ==
    LET t == Task("register", name, Undefined, 0) IN
    /\ Accept(MaxReq)
    /\ IF Falsy(name)
         THEN /\ Answer(ErrorResponse(t, 400))
              /\ UNCHANGED <<storeVars, now, pgQueries, acked>>
         ELSE IF useInMemory
           THEN LET entry == Entry(NextId(inMemoryNames), name, now) IN
                /\ inMemoryNames' = Append(inMemoryNames, entry)
                /\ now' = now + 1
                /\ Answer(Response(t, 201, "in-memory", <<entry>>,
                                            Null, FALSE, 0, FALSE))
                /\ acked' = Append(acked, Acked(entry, "in-memory"))
                /\ UNCHANGED <<useInMemory, pgQueries>>
           ELSE /\ Suspend(t)
                /\ pgQueries' = pgQueries + 1
                /\ UNCHANGED <<storeVars, now, acked>>
    /\ lastNames' = NoNames
    /\ UNCHANGED <<written, atSigterm>>
    /\ UNCHANGED <<config, procVars, redisConnected, initVars, pgVars,
                   redisVars, redisCmds>>

\* Variant: the catch block also falls back to the in-memory list.
RegisterCatchFallsBack(t) ==
    /\ Resume(t, [ErrorResponse(t, 500) EXCEPT !.storage = "postgres"])
    /\ useInMemory' = TRUE
    /\ UNCHANGED <<pgRows, pgSerial, now, acked>>

\* Lines 97-100: the catch block of the handler.
RegisterCatch(t) ==
    /\ Resume(t, [ErrorResponse(t, 500) EXCEPT !.storage = "postgres"])
    /\ UNCHANGED <<useInMemory, pgRows, pgSerial, now, acked>>

\* The INSERT ... RETURNING has run, or failed (backend unreachable, or the
\* table does not exist); the handler resumes with the row or in its catch.
RegisterResume(t, ok) ==
    /\ Running
    /\ t \in inflight
    /\ t.op = "register"
    /\ ok => pgTable
    /\ IF ok
         THEN LET row == Entry(pgSerial, t.arg, now) IN
              /\ pgRows' = Append(pgRows, row)
              /\ pgSerial' = pgSerial + 1
              /\ now' = now + 1
              /\ Resume(t, Response(t, 201, "postgres", <<row>>, Null, FALSE,
                                    0, FALSE))
              /\ acked' = Append(acked, Acked(row, "postgres"))
              /\ UNCHANGED useInMemory
         ELSE RegisterCatch(t)
    /\ lastNames' = NoNames
    /\ UNCHANGED <<written, atSigterm>>
    /\ UNCHANGED <<config, inMemoryNames, procVars, redisConnected, initVars,
                   pgTable, pgQueries, redisVars, redisCmds>>

\* ---------------------------------------------------------------- GET /names
RECURSIVE OrderByCreatedAtDesc(_)
\* SELECT ... ORDER BY created_at DESC over the rows of the table.
OrderByCreatedAtDesc(rows) ==
    IF rows = <<>> THEN <<>>
    ELSE LET i == CHOOSE i \in 1..Len(rows) :
                    \A j \in 1..Len(rows) :
                        \/ rows[j].created_at < rows[i].created_at
                        \/ (rows[j].created_at = rows[i].created_at /\ i <= j)
             others == [k \in 1..(Len(rows) - 1) |->
                           IF k < i THEN rows[k] ELSE rows[k + 1]]
         IN  <<rows[i]>> \o OrderByCreatedAtDesc(others)

\* Line 107 / 111: the body of a successful answer.
NamesBody(t, storage, rows) ==
    Response(t, 200, storage, rows, Null, FALSE, 0, FALSE)

\* History: what a client can compare between two /names answers.
Seen(r) == [status |-> r.status, storage |-> r.storage, names |-> r.names]

Names ==
    LET t == Task("names", Undefined, Undefined, 0) IN
    /\ Accept(MaxReq)
    /\ IF useInMemory
         THEN /\ Answer(NamesBody(t, "in-memory", inMemoryNames))
              /\ lastNames' = Seen(NamesBody(t, "in-memory", inMemoryNames))
              /\ UNCHANGED pgQueries
         ELSE /\ Suspend(t)
              /\ pgQueries' = pgQueries + 1
              /\ UNCHANGED lastNames
    /\ UNCHANGED <<acked, written, atSigterm>>
    /\ UNCHANGED <<config, storeVars, procVars, redisConnected, initVars, now,
                   pgVars, redisVars, redisCmds>>

NamesResume(t, ok) ==
    /\ Running
    /\ t \in inflight
    /\ t.op = "names"
    /\ ok => pgTable
    /\ LET r == IF ok
                 THEN NamesBody(t, "postgres", OrderByCreatedAtDesc(pgRows))
                 ELSE [ErrorResponse(t, 500) EXCEPT !.storage = "postgres"]
       IN  Resume(t, r) /\ lastNames' = Seen(r)
    /\ UNCHANGED <<acked, written, atSigterm>>
    /\ UNCHANGED <<config, storeVars, procVars, redisConnected, initVars, now,
                   pgVars, pgQueries, redisVars, redisCmds>>

\* ------------------------------------------------------------ Redis client
\* The client's 'connect' and 'error' events (lines 28-35).
RedisConnect ==
    /\ Running
    /\ redis = "open"
    /\ ~redisConnected
    /\ redisConnected' = TRUE
    /\ UNCHANGED <<config, storeVars, procVars, initVars, inflight, nreq,
                   last, histVars, now, pgVars, pgQueries, redisVars, redisCmds>>

RedisError ==
    /\ Running
    /\ redis = "open"
    /\ redisConnected
    /\ redisConnected' = FALSE
    /\ UNCHANGED <<config, storeVars, procVars, initVars, inflight, nreq,
                   last, histVars, now, pgVars, pgQueries, redisVars, redisCmds>>

\* A key with an expiration expires.
Expire(k) ==
    /\ Running
    /\ k \in redisTtl
    /\ redisStore' = [redisStore EXCEPT ![k] = Null]
    /\ redisTtl' = redisTtl \ {k}
    /\ UNCHANGED <<config, storeVars, procVars, redisConnected, initVars,
                   inflight, nreq, last, histVars, now, pgVars, pgQueries,
                   redisCmds>>

\* Variant: the client is compared with undefined, which null is not.
RedisConfiguredNotUndefined == TRUE

\* The guard every Redis handler starts with.
RedisConfigured == redis # "null"

\* A handler hands one command to the client and suspends.
RedisCall(t) ==
    /\ Suspend(t)
    /\ redisCmds' = redisCmds + 1
    /\ written' = IF t.op \in {"set", "incr"} THEN written \cup {t.arg}
                                              ELSE written

\* A handler answers without calling the client.
RedisSkip(r) ==
    /\ Answer(r)
    /\ UNCHANGED <<redisCmds, written>>

\* A command can succeed only over an established connection.
RedisReplies(t, op, ok) ==
    /\ Running
    /\ t \in inflight
    /\ t.op = op
    /\ ok => redisConnected

redisIdle == <<config, storeVars, procVars, redisConnected, initVars, now,
               pgVars, pgQueries, acked, lastNames, atSigterm>>

\* ------------------------------------------------------------ GET /redis/ping
RedisPing ==
    LET t == Task("ping", Undefined, Undefined, 0) IN
    /\ Accept(MaxRedisReq)
    /\ IF ~RedisConfigured
         THEN RedisSkip(ErrorResponse(t, 503))
         ELSE RedisCall(t)
    /\ UNCHANGED <<redisIdle, redisVars>>

RedisPingResume(t, ok) ==
    /\ RedisReplies(t, "ping", ok)
    /\ IF ok
         THEN Resume(t, Response(t, 200, "none", <<>>, "PONG", FALSE, 0,
                                 redisConnected))
         ELSE Resume(t, ErrorResponse(t, 500))
    /\ UNCHANGED <<redisIdle, redisVars, redisCmds, written>>

\* ------------------------------------------------------------ POST /redis/set
\* Line 139: the body is rejected.
SetInvalid(key, value) == Falsy(key) \/ value = Undefined

RedisSet(key, value, ttl) ==
    LET t == Task("set", key, value, ttl) IN
    /\ Accept(MaxRedisReq)
    /\ IF ~RedisConfigured
         THEN RedisSkip(ErrorResponse(t, 503))
         ELSE IF SetInvalid(key, value)
           THEN RedisSkip(ErrorResponse(t, 400))
           ELSE RedisCall(t)
    /\ UNCHANGED <<redisIdle, redisVars>>

\* SET key value [EX ttl] as Redis applies it.
ApplySet(key, value, ttl) ==
    /\ redisStore' = [redisStore EXCEPT ![key] = value]
    /\ redisTtl' = IF ttl # 0 THEN redisTtl \cup {key} ELSE redisTtl \ {key}

\* On success the write is applied; a failed command may or may not have
\* reached the server before the connection broke.
RedisSetResume(t, ok, applied) ==
    /\ RedisReplies(t, "set", ok)
    /\ ok => applied
    /\ IF applied
         THEN ApplySet(t.arg, t.val, t.ttl)
         ELSE UNCHANGED redisVars
    /\ IF ok
         THEN Resume(t, Response(t, 200, "none", <<>>, t.val, FALSE, t.ttl,
                                 FALSE))
         ELSE Resume(t, ErrorResponse(t, 500))
    /\ UNCHANGED <<redisIdle, redisCmds, written>>

\* -------------------------------------------------------- GET /redis/get/:key
\* Variant: value !== undefined, true of every reply.
ExistsNotUndefined(value) == TRUE

\* Line 161: exists: value !== null.
Exists(value) == value # Null

RedisGet(key) ==
    LET t == Task("get", key, Undefined, 0) IN
    /\ Accept(MaxRedisReq)
    /\ IF ~RedisConfigured
         THEN RedisSkip(ErrorResponse(t, 503))
         ELSE RedisCall(t)
    /\ UNCHANGED <<redisIdle, redisVars>>

RedisGetResume(t, ok) ==
    /\ RedisReplies(t, "get", ok)
    /\ IF ok
         THEN LET value == redisStore[t.arg] IN
              Resume(t, Response(t, 200, "none", <<>>, value, Exists(value),
                                 0, FALSE))
         ELSE Resume(t, ErrorResponse(t, 500))
    /\ UNCHANGED <<redisIdle, redisVars, redisCmds, written>>

\* ------------------------------------------------------- GET /redis/incr/:key
\* INCR: a missing key counts from 0; a value that is no integer is an error.
IncrOk(key) == redisStore[key] = Null \/ IsInt(redisStore[key])

IncrValue(key) ==
    IF redisStore[key] = Null THEN 1 ELSE ParseInt(redisStore[key]) + 1

RedisIncr(key) ==
    LET t == Task("incr", key, Undefined, 0) IN
    /\ Accept(MaxRedisReq)
    /\ IF ~RedisConfigured
         THEN RedisSkip(ErrorResponse(t, 503))
         ELSE RedisCall(t)
    /\ UNCHANGED <<redisIdle, redisVars>>

RedisIncrResume(t, ok, applied) ==
    /\ RedisReplies(t, "incr", ok)
    /\ ok => applied
    /\ applied => IncrOk(t.arg)
    /\ IF applied
         THEN /\ redisStore' = [redisStore EXCEPT ![t.arg] =
                                    ToStr(IncrValue(t.arg))]
              /\ UNCHANGED redisTtl
         ELSE UNCHANGED redisVars
    /\ IF ok
         THEN Resume(t, Response(t, 200, "none", <<>>, Null, FALSE,
                                 IncrValue(t.arg), FALSE))
         ELSE Resume(t, ErrorResponse(t, 500))
    /\ UNCHANGED <<redisIdle, redisCmds, written>>

\* ------------------------------------------------------------------ shutdown
\* pool.end() and redis.disconnect(), each when the client exists.
EndPool(p) == IF p = "null" THEN "null" ELSE "ended"

Disconnect(r) == IF r = "null" THEN "null" ELSE "disconnected"

\* Variant: the handler releases the backends and exits without waiting for
\* the server to close.
SigtermExitsAtOnce ==
    /\ Running
    /\ initPc # "start"
    /\ server = "listening"
    /\ server' = "closed"
    /\ pool' = EndPool(pool)
    /\ redis' = Disconnect(redis)
    /\ exitCode' = 0
    /\ atSigterm' = Cardinality(inflight)
    /\ UNCHANGED <<config, storeVars, redisConnected, initVars, inflight, nreq,
                   last, acked, lastNames, written, now, pgVars, pgQueries,
                   redisVars, redisCmds>>

\* The SIGTERM handler: server.close(cb) stops the server from accepting new
\* connections and keeps the open ones.  A repeated signal only registers the
\* callback again and changes nothing.
Sigterm ==
    /\ Running
    /\ initPc # "start"
    /\ server = "listening"
    /\ server' = "closing"
    /\ atSigterm' = Cardinality(inflight)
    /\ UNCHANGED <<config, storeVars, pool, redis, exitCode, redisConnected,
                   initVars, inflight, nreq, last, acked, lastNames, written,
                   now, pgVars, pgQueries, redisVars, redisCmds>>

\* The callback given to server.close, run on the server's 'close' event,
\* which is emitted once every connection has ended.
ServerClosed ==
    /\ Running
    /\ server = "closing"
    /\ Connections = 0
    /\ server' = "closed"
    /\ pool' = EndPool(pool)
    /\ redis' = Disconnect(redis)
    /\ exitCode' = 0
    /\ UNCHANGED <<config, storeVars, redisConnected, initVars, inflight,
                   nreq, last, histVars, now, pgVars, pgQueries, redisVars,
                   redisCmds>>

\* -------------------------------------------------------------- specification
Next ==
    \/ ListenCallback
    \/ \E ok \in BOOLEAN : InitDbResume(ok)
    \/ \E name \in NameInputs : Register(name)
    \/ \E t \in inflight, ok \in BOOLEAN : RegisterResume(t, ok)
    \/ Names
    \/ \E t \in inflight, ok \in BOOLEAN : NamesResume(t, ok)
    \/ RedisConnect
    \/ RedisError
    \/ \E k \in Keys : Expire(k)
    \/ RedisPing
    \/ \E t \in inflight, ok \in BOOLEAN : RedisPingResume(t, ok)
    \/ \E k \in KeyInputs, v \in ValueInputs, ttl \in TtlInputs :
          RedisSet(k, v, ttl)
    \/ \E t \in inflight, ok \in BOOLEAN, a \in BOOLEAN : RedisSetResume(t, ok, a)
    \/ \E k \in Keys : RedisGet(k)
    \/ \E t \in inflight, ok \in BOOLEAN : RedisGetResume(t, ok)
    \/ \E k \in Keys : RedisIncr(k)
    \/ \E t \in inflight, ok \in BOOLEAN, a \in BOOLEAN : RedisIncrResume(t, ok, a)
    \/ Sigterm
    \/ ServerClosed

Spec == Init /\ [][Next]_vars

\* The service as clients of /register and /names see it.
NextStore ==
    \/ ListenCallback
    \/ \E ok \in BOOLEAN : InitDbResume(ok)
    \/ \E name \in NameInputs : Register(name)
    \/ \E t \in inflight, ok \in BOOLEAN : RegisterResume(t, ok)
    \/ Names
    \/ \E t \in inflight, ok \in BOOLEAN : NamesResume(t, ok)
    \/ Sigterm
    \/ ServerClosed

SpecStore == Init /\ [][NextStore]_vars

\* The service run without a database, as clients of /redis/* see it.
InitNoDb == Init /\ ~DATABASE_URL

NextRedis ==
    \/ ListenCallback
    \/ RedisConnect
    \/ RedisError
    \/ \E k \in Keys : Expire(k)
    \/ RedisPing
    \/ \E t \in inflight, ok \in BOOLEAN : RedisPingResume(t, ok)
    \/ \E k \in KeyInputs, v \in ValueInputs, ttl \in TtlInputs :
          RedisSet(k, v, ttl)
    \/ \E t \in inflight, ok \in BOOLEAN, a \in BOOLEAN : RedisSetResume(t, ok, a)
    \/ \E k \in Keys : RedisGet(k)
    \/ \E t \in inflight, ok \in BOOLEAN : RedisGetResume(t, ok)
    \/ \E k \in Keys : RedisIncr(k)
    \/ \E t \in inflight, ok \in BOOLEAN, a \in BOOLEAN : RedisIncrResume(t, ok, a)
    \/ Sigterm
    \/ ServerClosed

SpecRedis == InitNoDb /\ [][NextRedis]_vars

\* -------------------------------------------------------------- properties
StoreOps == {"register", "names"}
RedisOps == {"ping", "set", "get", "incr"}
MissingOrEmpty == {Undefined, ""}

\* The records of a sequence, as a set.
Range(seq) == {seq[i] : i \in DOMAIN seq}

\* C1: a /register answered 201 and then a /names answered 200 lists the
\* record that was registered, and the ids answered 201 increase strictly in
\* the order of the answers -- also when the register is served before initDb
\* completes and the /names after it.
C1_RegisteredIsListed ==
    /\ (last.op = "names" /\ last.status = 200) =>
           \A a \in Range(last.ackedAt) : a.rec \in Range(last.names)
    /\ \A i, j \in DOMAIN acked : i < j => acked[i].rec.id < acked[j].rec.id

\* C2: a /register whose name is missing or empty is answered 400 in the step
\* in which it arrives, and that step changes neither the in-memory list, the
\* mode flag nor the table, and hands no query or command to a backend; no
\* such request is ever suspended on a query.
C2_InvalidRegisterRejected ==
    /\ [](/\ (last.op = "register" /\ last.arg \in MissingOrEmpty) =>
                 last.status = 400
          /\ \A t \in inflight :
                 t.op = "register" => t.arg \notin MissingOrEmpty
          /\ \A a \in Range(acked) : a.rec.name \notin MissingOrEmpty)
    /\ [][(/\ nreq' = nreq + 1
           /\ last'.rid = nreq'
           /\ last'.op = "register"
           /\ last'.arg \in MissingOrEmpty)
          => /\ last'.status = 400
             /\ UNCHANGED <<inMemoryNames, useInMemory, pgTable, pgRows,
                            pgSerial, pgQueries, inflight, acked, redisStore,
                            redisTtl, redisCmds>>]_vars

C2_Witness ==
    /\ last.op = "register"
    /\ last.arg = ""
    /\ last.status = 400
    /\ ~useInMemory
    /\ initPc = "done"

\* C3: without DATABASE_URL the mode is InMemory in every state, there is no
\* pool, no query is ever handed to one, and every /names answer is a 200
\* that reports "in-memory".
C3_NoUrlMeansInMemory ==
    ~DATABASE_URL =>
        /\ useInMemory
        /\ pool = "null"
        /\ pgQueries = 0
        /\ \A t \in inflight : t.op \notin StoreOps
        /\ last.op = "names" => (last.status = 200 /\ last.storage = "in-memory")
        /\ last.op = "register" => last.storage # "postgres"

C3_Witness ==
    /\ ~DATABASE_URL
    /\ last.op = "names"
    /\ Len(last.names) = 2
    /\ initPc = "done"

\* C4: the mode flag changes only from Persistent to InMemory, and only in
\* the step in which initDb's query fails; no request is accepted, resumed or
\* answered in that step.
C4_ModeChangesOnlyAtInitFailure ==
    [][useInMemory' # useInMemory =>
          /\ ~useInMemory /\ useInMemory'
          /\ initPc = "awaiting" /\ initPc' = "done" /\ ~initOk'
          /\ UNCHANGED <<inflight, nreq, last>>]_vars

C4_Witness ==
    /\ DATABASE_URL
    /\ useInMemory
    /\ last.op = "register"
    /\ last.status = 500

\* C5: of two /names answered 200 with no /register arriving or resuming
\* between them, the second reports what the first did (storage and records,
\* in order) -- also while initDb is still in flight.
C5_NamesIdempotent ==
    [][(lastNames.status = 200 /\ lastNames'.status = 200)
          => lastNames' = lastNames]_vars

\* C6: without REDIS_URL each of the four /redis handlers answers 503,
\* whatever its key or body, and no command is ever handed to a client.
C6_NoRedisMeans503 ==
    ~REDIS_URL =>
        /\ redis = "null"
        /\ redisCmds = 0
        /\ written = {}
        /\ \A t \in inflight : t.op \notin RedisOps
        /\ last.op \in RedisOps => last.status = 503

C6_Witness ==
    /\ ~REDIS_URL
    /\ last.op = "set"
    /\ last.arg = Undefined
    /\ last.val = Undefined
    /\ last.status = 503

\* C7, as claimed: /redis/get/:key for a key never set is answered 200 with
\* exists false and value null in every state.
C7_GetUnsetIs200 ==
    (last.op = "get" /\ last.arg \notin written) =>
        (last.status = 200 /\ ~last.exists /\ last.value = Null)

\* C7, amended: with REDIS_URL set, /redis/get/:key is answered 200 or (the
\* command failed) 500; a 200 for a key no SET or INCR was ever issued for
\* carries exists false and value null.
C7_GetUnsetWhenConfigured ==
    (REDIS_URL /\ last.op = "get") =>
        /\ last.status \in {200, 500}
        /\ (last.status = 200 /\ last.arg \notin written) =>
               (~last.exists /\ last.value = Null)

C7_Witness ==
    /\ last.op = "get"
    /\ last.status = 200
    /\ last.arg \notin written
    /\ written # {}

\* C8: after SIGTERM no further request is accepted and the server never
\* listens again; the pool is ended, the Redis client disconnected and the
\* process exited only together, with code 0, after the server has closed
\* and with no handler left in flight.
C8_GracefulShutdown ==
    /\ []((pool = "ended" \/ redis = "disconnected" \/ exitCode # -1
           \/ server = "closed")
          => /\ server = "closed"
             /\ exitCode = 0
             /\ inflight = {}
             /\ pool # "open"
             /\ redis # "open")
    /\ [][server # "listening" =>
             (server' # "listening" /\ nreq' = nreq)]_vars
    /\ [][(server = "closing" /\ inflight # {}) =>
             (server' = "closing" /\ pool' = pool /\ redis' = redis
              /\ exitCode' = exitCode)]_vars

C8_Witness ==
    /\ exitCode = 0
    /\ atSigterm = 2
    /\ pool = "ended"
    /\ redis = "disconnected"
    /\ last.storage = "postgres"

\* C9: the ids of the in-memory list are pairwise distinct in every state.
C9_InMemoryIdsDistinct ==
    \A i, j \in DOMAIN inMemoryNames :
        i # j => inMemoryNames[i].id # inMemoryNames[j].id

C9_Witness ==
    /\ Len(inMemoryNames) = 2
    /\ \E t \in inflight : t.op = "register"

\* C10: with DATABASE_URL set the mode is Persistent until initDb completes,
\* and while initDb is suspended the server takes /register and /names
\* requests; a request taken in that window is handled against Postgres, and
\* one handled in memory was taken after initDb failed.
C10_ServedBeforeInitCompletes ==
    DATABASE_URL =>
        /\ initPc # "done" => ~useInMemory
        /\ (initPc = "awaiting" /\ server = "listening" /\ nreq < MaxReq) =>
               (ENABLED Names /\ ENABLED Register("ann"))
        /\ \A t \in inflight :
               t.op \in StoreOps => (t.initAt = "awaiting" \/ initOk)
        /\ (last.op \in StoreOps /\ last.initAt = "awaiting"
              /\ last.status # 400) => last.storage = "postgres"
        /\ last.storage = "in-memory" =>
               (last.initAt = "done" /\ initPc = "done" /\ ~initOk)

C10_Witness ==
    /\ DATABASE_URL
    /\ last.op = "names"
    /\ last.storage = "in-memory"
    /\ \E a \in Range(last.ackedAt) : a.storage = "postgres"
    /\ \E a \in Range(last.ackedAt) : a.storage = "in-memory"

====
